---------------------------- MODULE Spec2Model ----------------------------
(***************************************************************************)
(* Model of tutorials/gpei_hartmann_developer.ipynb: the evaluation        *)
(* function, the search space, the experiment with its outcome constraint  *)
(* and the optimization loop (5 Sobol trials, then 15 GP+EI trials).       *)
(*                                                                         *)
(* Numbers.  Floating-point values are modelled in fixed point: a value v  *)
(* stands for v / Unit, Unit = 10^4 (the resolution of the P matrix of the *)
(* Hartmann6 function).  Products are rescaled so that every intermediate  *)
(* value fits TLC's 32-bit integers.  Python's None is the value None.     *)
(***************************************************************************)
EXTENDS Integers, Sequences, FiniteSets, TLC

VARIABLES
    parameterization,   \* the dictionary handed to a direct call of the evaluation function
    weight,             \* the weight handed to the latest direct call
    result,             \* the outcome of the latest direct call
    first,              \* the outcome of the first direct call
    ncalls,             \* number of direct calls made so far
    pc,                 \* position of the notebook's control
    i,                  \* loop variable of cell 6
    exp,                \* the SimpleExperiment: trials, cached data, outcome constraints
    sobol,              \* the Sobol generator (cell 6)
    gpei,               \* the latest GP+EI model (cell 6)
    rng,                \* the process-wide pseudo-random state the GP+EI optimizer draws from
    output,             \* lines printed by cell 6
    trial_data,         \* cell 7
    best_objective_plot \* cell 8

vars == <<parameterization, weight, result, first, ncalls, pc, i, exp, sobol,
          gpei, rng, output, trial_data, best_objective_plot>>

evalVars == <<parameterization, weight, result, first, ncalls>>
bookVars == <<pc, i, exp, sobol, gpei, rng, output, trial_data, best_objective_plot>>

(***************************************************************************)
(* Bounds of the model.                                                    *)
(***************************************************************************)
MaxCalls == 2      \* direct calls of the evaluation function per behaviour
MaxSeed == 3       \* seeds 0..MaxSeed of each pseudo-random source

(***************************************************************************)
(* Values.                                                                 *)
(***************************************************************************)
Unit == 10^4

None == -1

\* Coordinate values the inputs are drawn from: 0.0, 0.75 and 1.0.
Grid == {0, (3 * Unit) \div 4, Unit}

Dim == 6

RECURSIVE Str(_)
\* str(n) for a natural number n, as the f-string f"x{i}" renders it.
Str(n) ==
    LET d == n % 10
        c == CASE d = 0 -> "0" [] d = 1 -> "1" [] d = 2 -> "2" [] d = 3 -> "3"
               [] d = 4 -> "4" [] d = 5 -> "5" [] d = 6 -> "6" [] d = 7 -> "7"
               [] d = 8 -> "8" [] OTHER -> "9"
    IN  IF n < 10 THEN c ELSE Str(n \div 10) \o c

\* f"x{i}"
ParamName(k) == "x" \o Str(k)

\* Variant: dict.get(key, 0.0), a default of zero for an absent key.
GetOrZero(d, key) == IF key \in DOMAIN d THEN d[key] ELSE 0

\* dict.get(key): the value, or None when the key is absent.
Get(d, key) == IF key \in DOMAIN d THEN d[key] ELSE None

RECURSIVE SumTo(_, _)
\* f[1] + ... + f[n]
SumTo(f, n) == IF n = 0 THEN 0 ELSE SumTo(f, n - 1) + f[n]

(***************************************************************************)
(* ax.utils.measurement.synthetic_functions.hartmann6, in fixed point.     *)
(***************************************************************************)
\* alpha = [1.0, 1.2, 3.0, 3.2], in tenths.
alpha == <<10, 12, 30, 32>>

\* A, in hundredths.
A == << <<1000,  300, 1700,  350,  170,  800>>,
        <<   5, 1000, 1700,   10,  800, 1400>>,
        << 300,  350,  170, 1000, 1700,  800>>,
        <<1700,  800,    5, 1000,   10, 1400>> >>

\* P = 10^-4 * [...], in units of 10^-4.
P == << <<1312, 1696, 5569,  124, 8283, 5886>>,
        <<2329, 4135, 8307, 3736, 1004, 9991>>,
        <<2348, 1451, 3522, 2883, 3047, 6650>>,
        <<4047, 8828, 8732, 5743, 1091,  381>> >>

RECURSIVE ExpSeries(_, _, _, _)
\* The Taylor series of exp(-f), 0 <= f < Unit, from term n on; term is f^(n-1)/(n-1)!.
ExpSeries(f, n, term, acc) ==
    IF term = 0 \/ n > 12 THEN acc
    ELSE LET t == (term * f) \div (n * Unit)
         IN  ExpSeries(f, n + 1, t, IF n % 2 = 1 THEN acc - t ELSE acc + t)

RECURSIVE ExpInt(_, _)
\* exp(-k) for a natural number k: e^-1 = 0.3679 multiplied k times.
ExpInt(k, acc) == IF k = 0 \/ acc = 0 THEN acc ELSE ExpInt(k - 1, (acc * 3679) \div Unit)

\* np.exp(-t) for t >= 0.
ExpNeg(t) == (ExpInt(t \div Unit, Unit) * ExpSeries(t % Unit, 1, Unit, Unit)) \div Unit

\* t = sum over k of A[j, k] * (x[k] - P[j, k]) ** 2
Exponent(x, j) ==
    SumTo([k \in 1..Dim |->
             (A[j][k] * (((x[k] - P[j][k]) * (x[k] - P[j][k])) \div 100)) \div 100],
          Dim) \div 100

\* y = - sum over j of alpha[j] * exp(-t_j)
hartmann6(x) ==
    0 - (SumTo([j \in 1..4 |-> alpha[j] * ExpNeg(Exponent(x, j))], 4) \div 10)

\* The largest r in lo..hi with r * r <= n, by bisection.
SqrtSearch[n \in Nat, lo \in Nat, hi \in Nat] ==
    IF lo >= hi THEN lo
    ELSE LET mid == (lo + hi + 1) \div 2
         IN  IF mid * mid <= n THEN SqrtSearch[n, mid, hi] ELSE SqrtSearch[n, lo, mid - 1]

\* np.sqrt(n), n in units of Unit^-2, the root in units of Unit^-1.
Sqrt(n) == SqrtSearch[n, 0, 4 * Unit]

(***************************************************************************)
(* Cell 3: the evaluation function.  An outcome is a return value or a     *)
(* raised exception.                                                       *)
(***************************************************************************)
Return(v) == [kind |-> "return", value |-> v]
Raise(e)  == [kind |-> "raise", value |-> e]

\* [f"x{i}" for i in range(6)]: the names the evaluation function reads.
CoordinateNames == [k \in 1..Dim |-> ParamName(k - 1)]

\* Variant: the coordinates taken in the order x5, ..., x0.
CoordinateArrayReversed(p) == [k \in 1..Dim |-> Get(p, CoordinateNames[Dim + 1 - k])]

\* x = np.array([parameterization.get(f"x{i}") for i in range(6)])
CoordinateArray(p) == [k \in 1..Dim |-> Get(p, CoordinateNames[k])]

\* Variant: the standard error of l2norm set to the metric's noise_sd, 0.2.
hartmann_evaluation_function_noisy(p, w) ==
    LET x == CoordinateArray(p)
    IN  IF \E k \in 1..Dim : x[k] = None
        THEN Raise("TypeError")
        ELSE Return([hartmann6 |-> <<hartmann6(x), 0>>,
                     l2norm    |-> <<Sqrt(SumTo([k \in 1..Dim |-> x[k] * x[k]], Dim)),
                                     Unit \div 5>>])

\* Variant: (x * 2).sum() in place of (x ** 2).sum().
hartmann_evaluation_function_unsquared(p, w) ==
    LET x == CoordinateArray(p)
    IN  IF \E k \in 1..Dim : x[k] = None
        THEN Raise("TypeError")
        ELSE Return([hartmann6 |-> <<hartmann6(x), 0>>,
                     l2norm    |-> <<Sqrt(SumTo([k \in 1..Dim |-> x[k] * 2 * Unit], Dim)), 0>>])

\* Variant: the means scaled by the weight when one is given.
hartmann_evaluation_function_weighted(p, w) ==
    LET x == CoordinateArray(p)
        Scaled(m) == IF w = None THEN m ELSE (m * w) \div Unit
    IN  IF \E k \in 1..Dim : x[k] = None
        THEN Raise("TypeError")
        ELSE Return([hartmann6 |-> <<Scaled(hartmann6(x)), 0>>,
                     l2norm    |-> <<Scaled(Sqrt(SumTo([k \in 1..Dim |-> x[k] * x[k]], Dim))),
                                     0>>])

hartmann_evaluation_function(p, w) ==
    LET x == CoordinateArray(p)
    IN  IF \E k \in 1..Dim : x[k] = None
        THEN Raise("TypeError")      \* arithmetic on None, in hartmann6(x)
        ELSE Return([hartmann6 |-> <<hartmann6(x), 0>>,
                     l2norm    |-> <<Sqrt(SumTo([k \in 1..Dim |-> x[k] * x[k]], Dim)), 0>>])

(***************************************************************************)
(* Direct calls of the evaluation function.  The parameterization is any   *)
(* dictionary over the keys x0..x5 and one key more, x6, that the function *)
(* does not read; a value is a grid value or None.                         *)
(***************************************************************************)
Values == Grid \cup {None}

Weights == {None, Unit \div 2}

ExtraName == ParamName(Dim)

ParamDicts ==
    UNION {
        {p \in [K -> Values] : ExtraName \in K => p[ExtraName] = Unit} :
            K \in SUBSET ({CoordinateNames[k] : k \in 1..Dim} \cup {ExtraName})
    }

Pending == [kind |-> "pending", value |-> None]

\* The value of a notebook name that no cell has assigned yet.
Undefined == [defined |-> FALSE]

\* hartmann_evaluation_function(parameterization, weight)
Call ==
    /\ ncalls < MaxCalls
    /\ \E w \in Weights :
         /\ weight' = w
         /\ result' = hartmann_evaluation_function(parameterization, w)
    /\ first' = IF ncalls = 0 THEN result' ELSE first
    /\ ncalls' = ncalls + 1
    /\ UNCHANGED <<parameterization, bookVars>>

(***************************************************************************)
(* Cell 4: the search space.                                               *)
(***************************************************************************)
\* Variant: upper=1.1.
hartmann_search_space_wide ==
    [name \in {ParamName(k) : k \in 0..(Dim - 1)} |->
        [parameter_type |-> "FLOAT", lower |-> 0, upper |-> (11 * Unit) \div 10]]

\* Variant: for i in range(5).
hartmann_search_space_five ==
    [name \in {ParamName(k) : k \in 0..(Dim - 2)} |->
        [parameter_type |-> "FLOAT", lower |-> 0, upper |-> Unit]]

hartmann_search_space ==
    [name \in {ParamName(k) : k \in 0..(Dim - 1)} |->
        [parameter_type |-> "FLOAT", lower |-> 0, upper |-> Unit]]

(***************************************************************************)
(* Cell 5: the experiment.                                                 *)
(***************************************************************************)
\* OutcomeConstraint(metric=L2NormMetric(...), op=LEQ, bound=1.25, relative=False)
outcome_constraint ==
    [metric   |-> [name        |-> "l2norm",
                   param_names |-> [k \in 1..Dim |-> ParamName(k - 1)],
                   noise_sd    |-> Unit \div 5],
     op       |-> "LEQ",
     bound    |-> (5 * Unit) \div 4,
     relative |-> FALSE]

\* Whether an evaluation (metric name -> <<mean, sem>>) satisfies a constraint.
Satisfies(c, evaluation) ==
    LET m == evaluation[c.metric.name][1]
    IN  IF c.op = "LEQ" THEN m <= c.bound ELSE m >= c.bound

\* exp = SimpleExperiment(...): no trial, no data yet.
NewExperiment ==
    [name                |-> "test_branin",
     search_space        |-> hartmann_search_space,
     objective_name      |-> "hartmann6",
     minimize            |-> TRUE,
     outcome_constraints |-> <<outcome_constraint>>,
     trials              |-> <<>>,
     data                |-> <<>>]

NumTrials(e) == Cardinality(DOMAIN e.trials)

\* exp.new_trial(generator_run=...): the next index, the run's single arm.
new_trial(e, generator_run) ==
    LET n == NumTrials(e)
        t == [index |-> n, arm |-> generator_run.arms[1], generator |-> generator_run.model]
    IN  [e EXCEPT !.trials = [k \in 0..n |-> IF k < n THEN e.trials[k] ELSE t]]

\* The evaluation of one trial's arm; the experiment passes no weight.
EvaluateArm(t) == hartmann_evaluation_function(t.arm, None)

\* Whether evaluating the trials that have no data yet raises.
EvalRaises(e) ==
    \E k \in DOMAIN e.trials : k \notin DOMAIN e.data /\ EvaluateArm(e.trials[k]).kind = "raise"

\* exp.eval(): every trial without data is evaluated and its data attached;
\* the data returned is the experiment's data, one entry per trial.
eval(e) ==
    [e EXCEPT !.data = [k \in DOMAIN e.trials |->
                           IF k \in DOMAIN e.data THEN e.data[k]
                           ELSE EvaluateArm(e.trials[k]).value]]

\* exp.eval_trial(trial): the same for one trial.
eval_trial(e, t) ==
    [e EXCEPT !.data = [k \in DOMAIN e.data \cup {t.index} |->
                           IF k \in DOMAIN e.data THEN e.data[k]
                           ELSE EvaluateArm(t).value]]

\* Data(...).df of one trial: one row per metric.
DataFrame(e, k) ==
    {[arm_name    |-> Str(k) \o "_0",
      metric_name |-> m,
      mean        |-> e.data[k][m][1],
      sem         |-> e.data[k][m][2],
      trial_index |-> k] : m \in DOMAIN e.data[k]}

(***************************************************************************)
(* The generators.  A proposed arm is a point of the search space; the     *)
(* model draws it from the grid points of the space, selected by the       *)
(* generator's pseudo-random state.                                        *)
(***************************************************************************)
GridSeq == <<0, (3 * Unit) \div 4, Unit>>

RECURSIVE Pow(_, _)
Pow(b, n) == IF n = 0 THEN 1 ELSE b * Pow(b, n - 1)

NPoints == Pow(Len(GridSeq), Dim)

\* The number k of the parameter named f"x{k}".
NameIndex(name) == CHOOSE k \in 0..Dim : ParamName(k) = name

\* The idx-th grid point of a search space, as a parameterization.
Point(space, idx) ==
    [name \in DOMAIN space |->
        LET digit == (idx \div Pow(Len(GridSeq), NameIndex(name))) % Len(GridSeq)
        IN  space[name].lower
              + (GridSeq[digit + 1] * (space[name].upper - space[name].lower)) \div Unit]

\* Models.SOBOL(search_space): a quasi-random sequence, fixed by its seed.
SOBOL(space, seed) ==
    [model |-> "Sobol", search_space |-> space, seed |-> seed, init_position |-> 0]

\* sobol.gen(1)
SobolGen(g) ==
    [model |-> g.model,
     arms  |-> <<Point(g.search_space,
                       (g.seed * 131 + g.init_position * 89 + 7) % NPoints)>>]

\* Models.GPEI(experiment=exp, data=...): the model holds the data it was fitted to.
GPEI(e, data) == [model |-> "GPEI", search_space |-> e.search_space, data |-> data]

\* The pseudo-random state after one draw.
NextRandom(r) == (r * 421 + 37) % NPoints

\* gpei.gen(1): the acquisition optimizer's proposal, a point of the search space.
GPEIGen(g, r) == [model |-> g.model, arms |-> <<Point(g.search_space, NextRandom(r))>>]

(***************************************************************************)
(* Cell 6: the optimization loop.                                          *)
(***************************************************************************)
NSobol == 5

NGPEI == 15

\* print("Running Sobol initialization trials..."); sobol = Models.SOBOL(exp.search_space)
SobolInit ==
    /\ pc = "cell6"
    /\ output' = Append(output, "Running Sobol initialization trials...")
    /\ \E seed \in 0..MaxSeed : sobol' = SOBOL(exp.search_space, seed)
    /\ i' = 0
    /\ pc' = "sobol_loop"
    /\ UNCHANGED <<exp, gpei, rng, trial_data, best_objective_plot, evalVars>>

\* Variant: one iteration more, range(5 + 1).
SobolTrialOffByOne ==
    /\ pc = "sobol_loop"
    /\ i < NSobol + 1
    /\ exp' = new_trial(exp, SobolGen(sobol))
    /\ sobol' = [sobol EXCEPT !.init_position = @ + 1]
    /\ i' = i + 1
    /\ UNCHANGED <<pc, gpei, rng, output, trial_data, best_objective_plot, evalVars>>

\* for i in range(5): exp.new_trial(generator_run=sobol.gen(1))
SobolTrial ==
    /\ pc = "sobol_loop"
    /\ i < NSobol
    /\ exp' = new_trial(exp, SobolGen(sobol))
    /\ sobol' = [sobol EXCEPT !.init_position = @ + 1]
    /\ i' = i + 1
    /\ UNCHANGED <<pc, gpei, rng, output, trial_data, best_objective_plot, evalVars>>

\* range(5) is exhausted: on to the second loop, for i in range(15).
SobolExit ==
    /\ pc = "sobol_loop"
    /\ i = NSobol
    /\ i' = 0
    /\ pc' = "gpei_loop"
    /\ UNCHANGED <<exp, sobol, gpei, rng, output, trial_data, best_objective_plot, evalVars>>

\* print(f"Running GP+EI optimization trial {i+1}/15...")
GPEIPrint ==
    /\ pc = "gpei_loop"
    /\ i < NGPEI
    /\ output' = Append(output, "Running GP+EI optimization trial " \o Str(i + 1) \o "/15...")
    /\ pc' = "gpei_fit"
    /\ UNCHANGED <<i, exp, sobol, gpei, rng, trial_data, best_objective_plot, evalVars>>

\* Variant: the model is built from the data cached by the previous
\* iteration's evaluation; the evaluation follows.
GPEIFitStale ==
    /\ pc = "gpei_fit"
    /\ IF EvalRaises(exp)
       THEN /\ pc' = "raised"
            /\ UNCHANGED <<exp, gpei>>
       ELSE /\ gpei' = GPEI(exp, exp.data)
            /\ exp' = eval(exp)
            /\ pc' = "gpei_gen"
    /\ UNCHANGED <<i, sobol, rng, output, trial_data, best_objective_plot, evalVars>>

\* gpei = Models.GPEI(experiment=exp, data=exp.eval())
GPEIFit ==
    /\ pc = "gpei_fit"
    /\ IF EvalRaises(exp)
       THEN /\ pc' = "raised"
            /\ UNCHANGED <<exp, gpei>>
       ELSE /\ exp' = eval(exp)
            /\ gpei' = GPEI(exp', exp'.data)
            /\ pc' = "gpei_gen"
    /\ UNCHANGED <<i, sobol, rng, output, trial_data, best_objective_plot, evalVars>>

\* batch = exp.new_trial(generator_run=gpei.gen(1))
GPEITrial ==
    /\ pc = "gpei_gen"
    /\ exp' = new_trial(exp, GPEIGen(gpei, rng))
    /\ rng' = NextRandom(rng)
    /\ i' = i + 1
    /\ pc' = "gpei_loop"
    /\ UNCHANGED <<sobol, gpei, output, trial_data, best_objective_plot, evalVars>>

\* range(15) is exhausted: print("Done!")
GPEIExit ==
    /\ pc = "gpei_loop"
    /\ i = NGPEI
    /\ output' = Append(output, "Done!")
    /\ pc' = "cell7"
    /\ UNCHANGED <<i, exp, sobol, gpei, rng, trial_data, best_objective_plot, evalVars>>

(***************************************************************************)
(* Cell 7: trial_data = exp.eval_trial(exp.trials[1]); trial_data.df       *)
(***************************************************************************)
Cell7 ==
    /\ pc = "cell7"
    /\ IF EvaluateArm(exp.trials[1]).kind = "raise" /\ 1 \notin DOMAIN exp.data
       THEN /\ pc' = "raised"
            /\ UNCHANGED <<exp, trial_data>>
       ELSE /\ exp' = eval_trial(exp, exp.trials[1])
            /\ trial_data' = DataFrame(exp', 1)
            /\ pc' = "cell8"
    /\ UNCHANGED <<i, sobol, gpei, rng, output, best_objective_plot, evalVars>>

(***************************************************************************)
(* Cell 8: the best objective found so far, per trial.                     *)
(***************************************************************************)
\* np.minimum.accumulate over means[0..n-1]: the k-th entry is the least of the
\* first k means.
MinimumAccumulate(means, n) ==
    [k \in 1..n |->
        CHOOSE m \in {means[j] : j \in 0..(k - 1)} : \A j \in 0..(k - 1) : m <= means[j]]

\* objective_means reads trial.objective_mean of every trial, which evaluates
\* the trials that have no data yet.
Cell8 ==
    /\ pc = "cell8"
    /\ IF EvalRaises(exp)
       THEN /\ pc' = "raised"
            /\ UNCHANGED <<exp, best_objective_plot>>
       ELSE /\ exp' = eval(exp)
            /\ best_objective_plot' =
                 [y |-> MinimumAccumulate(
                            [k \in DOMAIN exp'.data |-> exp'.data[k][exp.objective_name][1]],
                            NumTrials(exp')),
                  optimum |-> 0 - 33224]
            /\ pc' = "end"
    /\ UNCHANGED <<i, sobol, gpei, rng, output, trial_data, evalVars>>

(***************************************************************************)
(* Specifications.                                                         *)
(***************************************************************************)
\* The notebook, run from cell 6 on, under any seed of the pseudo-random state.
Init ==
    /\ parameterization = <<>>
    /\ weight = None
    /\ result = Pending
    /\ first = Pending
    /\ ncalls = 0
    /\ pc = "cell6"
    /\ i = 0
    /\ exp = NewExperiment
    /\ sobol = Undefined
    /\ gpei = Undefined
    /\ rng \in 0..MaxSeed
    /\ output = <<>>
    /\ trial_data = {}
    /\ best_objective_plot = Undefined

Next ==
    \/ SobolInit
    \/ SobolTrial
    \/ SobolExit
    \/ GPEIPrint
    \/ GPEIFit
    \/ GPEITrial
    \/ GPEIExit
    \/ Cell7
    \/ Cell8

Spec == Init /\ [][Next]_vars

\* The notebook runs to its end: cells execute one after the other, nothing waits.
FairSpec == Spec /\ WF_vars(Next)

\* Experiments a direct call may find: a new one, and one holding a Sobol trial.
ExpStates == {NewExperiment, new_trial(NewExperiment, SobolGen(SOBOL(hartmann_search_space, 0)))}

\* Direct calls of the evaluation function on any parameterization.
InitEval ==
    /\ parameterization \in ParamDicts
    /\ weight = None
    /\ result = Pending
    /\ first = Pending
    /\ ncalls = 0
    /\ pc = "cell6"
    /\ i = 0
    /\ exp \in ExpStates
    /\ sobol = Undefined
    /\ gpei = Undefined
    /\ rng = 0
    /\ output = <<>>
    /\ trial_data = {}
    /\ best_objective_plot = Undefined

NextEval == Call

SpecEval == InitEval /\ [][NextEval]_vars

(***************************************************************************)
(* Properties.                                                             *)
(***************************************************************************)
SixNames == {"x0", "x1", "x2", "x3", "x4", "x5"}

MetricNames == {"hartmann6", "l2norm"}

\* The parameterization of the direct call holds a number for each of x0..x5.
HasSixNumbers ==
    \A name \in SixNames : name \in DOMAIN parameterization /\ parameterization[name] # None

\* x0^2 + ... + x5^2 of a parameterization that holds the six numbers.
SumOfSquares(p) ==
    p["x0"] * p["x0"] + p["x1"] * p["x1"] + p["x2"] * p["x2"]
      + p["x3"] * p["x3"] + p["x4"] * p["x4"] + p["x5"] * p["x5"]

\* m is the Euclidean norm of p, to the resolution 1/Unit.
IsNormOf(m, p) == m >= 0 /\ m * m <= SumOfSquares(p) /\ SumOfSquares(p) < (m + 1) * (m + 1)

SameOutcome(a, b) == a.kind = b.kind /\ a.value = b.value

\* The parameterization with the key x6, which the function does not read,
\* added or removed.
OtherKeys(p) ==
    IF "x6" \in DOMAIN p
    THEN [name \in DOMAIN p \ {"x6"} |-> p[name]]
    ELSE [name \in DOMAIN p \cup {"x6"} |-> IF name = "x6" THEN Unit ELSE p[name]]

\* C1: called on a parameterization with the six coordinates x0..x5, the
\* evaluation function returns a dictionary with exactly the keys "hartmann6"
\* and "l2norm", each a (mean, standard error) pair with standard error 0.0.
C1_TwoMetricsZeroSem ==
    (ncalls > 0 /\ HasSixNumbers) =>
        /\ result.kind = "return"
        /\ DOMAIN result.value = MetricNames
        /\ \A m \in MetricNames : Len(result.value[m]) = 2 /\ result.value[m][2] = 0

C1_Witness ==
    /\ ncalls > 0
    /\ HasSixNumbers
    /\ parameterization["x0"] = 7500
    /\ result.kind = "return"
    /\ result.value["l2norm"][1] > 0

\* C2: the "l2norm" mean is the Euclidean norm of x, the square root of
\* x0^2 + ... + x5^2; for x = [0,0,0,0,0,0] it is 0.0.
C2_L2NormIsEuclidean ==
    (ncalls > 0 /\ HasSixNumbers) =>
        /\ result.kind = "return"
        /\ IsNormOf(result.value["l2norm"][1], parameterization)
        /\ (\A name \in SixNames : parameterization[name] = 0) => result.value["l2norm"][1] = 0

C2_Witness ==
    /\ ncalls > 0
    /\ HasSixNumbers
    /\ parameterization["x0"] = 7500 /\ parameterization["x1"] = 10000
    /\ \A name \in SixNames \ {"x0", "x1"} : parameterization[name] = 0
    /\ result.kind = "return"
    /\ result.value["l2norm"][1] = 12500

\* C3: the "hartmann6" mean is the Hartmann6 function at x, the coordinates
\* taken in the order x0, x1, ..., x5.
C3_Hartmann6InOrder ==
    (ncalls > 0 /\ HasSixNumbers) =>
        /\ result.kind = "return"
        /\ result.value["hartmann6"][1] =
             hartmann6(<<parameterization["x0"], parameterization["x1"],
                         parameterization["x2"], parameterization["x3"],
                         parameterization["x4"], parameterization["x5"]>>)

C3_Witness ==
    /\ ncalls > 0
    /\ HasSixNumbers
    /\ result.kind = "return"
    /\ result.value["hartmann6"][1] < 0
    /\ result.value["hartmann6"][1] #
         hartmann6(<<parameterization["x5"], parameterization["x4"],
                     parameterization["x3"], parameterization["x2"],
                     parameterization["x1"], parameterization["x0"]>>)

\* C4: the outcome of a call depends only on x0..x5: it is that of the first
\* call whatever the weight and the number of calls made before, and that of
\* a call with another weight or with other keys beside x0..x5; and a call
\* changes neither the parameterization nor the experiment.
C4_PureDeterministic ==
    /\ [](ncalls > 0 =>
            /\ SameOutcome(result, first)
            /\ \A w \in Weights : \A q \in {parameterization, OtherKeys(parameterization)} :
                 SameOutcome(hartmann_evaluation_function(q, w), result))
    /\ [][ncalls' # ncalls => parameterization' = parameterization /\ exp' = exp]_vars

C4_Witness ==
    /\ ncalls >= 2
    /\ weight # None
    /\ HasSixNumbers
    /\ "x6" \in DOMAIN parameterization
    /\ NumTrials(exp) > 0
    /\ result.kind = "return"
    /\ result.value["hartmann6"][1] < 0

\* C5 (as stated): called on any parameter dictionary, the evaluation function
\* returns a metric-result dictionary and never ends in an error.
C5_NeverRaises == ncalls > 0 => result.kind = "return"

\* C5 (amended): the evaluation function returns a metric-result dictionary
\* exactly when the dictionary holds a number for each of x0..x5; when one of
\* them is absent or None the call ends in a TypeError.
C5_RaisesOnlyWithoutCoordinate ==
    ncalls > 0 =>
        IF HasSixNumbers
        THEN result.kind = "return" /\ DOMAIN result.value = MetricNames
        ELSE result.kind = "raise" /\ result.value = "TypeError"

C5_Witness ==
    /\ ncalls > 0
    /\ "x3" \notin DOMAIN parameterization
    /\ \A name \in SixNames \ {"x3"} :
         name \in DOMAIN parameterization /\ parameterization[name] # None
    /\ result.kind = "raise"

\* C6: the loop creates exactly 5 Sobol trials and then exactly 15 GP+EI
\* trials, every Sobol trial before any GP+EI trial; each iteration adds
\* exactly one trial and none is ever removed; and the loop terminates,
\* printing "Done!" with exactly 20 trials in the experiment.
C6_FixedLengthOrderedLoop ==
    /\ [](/\ NumTrials(exp) <= 20
          /\ \A k \in DOMAIN exp.trials :
               /\ exp.trials[k].index = k
               /\ exp.trials[k].generator = IF k < 5 THEN "Sobol" ELSE "GPEI"
          /\ (pc = "sobol_loop" => NumTrials(exp) = i)
          /\ (pc \in {"gpei_loop", "gpei_fit", "gpei_gen"} => NumTrials(exp) = 5 + i)
          /\ (output # <<>> /\ output[Len(output)] = "Done!" => NumTrials(exp) = 20))
    /\ [][/\ \A k \in DOMAIN exp.trials : k \in DOMAIN exp'.trials /\ exp'.trials[k] = exp.trials[k]
          /\ NumTrials(exp') = IF i' = i + 1 THEN NumTrials(exp) + 1 ELSE NumTrials(exp)]_vars
    /\ <>(output # <<>> /\ output[Len(output)] = "Done!" /\ NumTrials(exp) = 20)

C6_Witness ==
    /\ pc = "end"
    /\ Len(output) = 17
    /\ output[17] = "Done!"
    /\ NumTrials(exp) = 20
    /\ exp.trials[4].generator = "Sobol"
    /\ exp.trials[5].generator = "GPEI"

\* C7: a point satisfies the outcome constraint exactly when its l2norm is
\* strictly less than 1.25.
C7_StrictlyBelowBound ==
    (ncalls > 0 /\ result.kind = "return") =>
        (Satisfies(outcome_constraint, result.value) <=> result.value["l2norm"][1] < 12500)

\* C8 (as stated): every trial recorded in the experiment has an evaluated
\* l2norm mean within the constraint bound 1.25.
C8_TrialsWithinBound ==
    \A k \in DOMAIN exp.data : exp.data[k]["l2norm"][1] <= 12500

\* C8 (amended): every trial recorded in the experiment has an evaluated
\* l2norm mean that is the Euclidean norm of its arm, a point of the search
\* space [0,1]^6: it is at most sqrt(6) = 2.4494..., not at most 1.25.
C8_TrialsWithinSearchSpaceNorm ==
    \A k \in DOMAIN exp.data :
        /\ IsNormOf(exp.data[k]["l2norm"][1], exp.trials[k].arm)
        /\ exp.data[k]["l2norm"][1] <= 24494

C8_Witness ==
    /\ pc = "end"
    /\ DOMAIN exp.data = 0..19
    /\ \E k \in 0..4 : exp.data[k]["l2norm"][1] > 12500
    /\ \E k \in 5..19 : exp.data[k]["l2norm"][1] > 12500
    /\ \E k \in 0..19 : exp.data[k]["l2norm"][1] <= 12500

\* C9: the search space declares exactly the float range parameters x0..x5,
\* each over [0, 1]; these are the names the evaluation function reads and
\* the names the l2norm metric is declared over; so every arm drawn from the
\* search space holds every coordinate the function reads, each in [0, 1].
C9_ParameterNamesAgree ==
    /\ DOMAIN hartmann_search_space = SixNames
    /\ \A name \in SixNames :
         hartmann_search_space[name] = [parameter_type |-> "FLOAT", lower |-> 0, upper |-> 10000]
    /\ {CoordinateNames[k] : k \in DOMAIN CoordinateNames} = SixNames
    /\ {outcome_constraint.metric.param_names[k] :
          k \in DOMAIN outcome_constraint.metric.param_names} = SixNames
    /\ exp.search_space = hartmann_search_space
    /\ \A k \in DOMAIN exp.trials :
         /\ DOMAIN exp.trials[k].arm = SixNames
         /\ \A name \in SixNames : exp.trials[k].arm[name] \in 0..10000
         /\ EvaluateArm(exp.trials[k]).kind = "return"

C9_Witness ==
    /\ pc = "end"
    /\ NumTrials(exp) = 20
    /\ \E k \in 0..4 : exp.trials[k].arm["x5"] = 10000
    /\ \E k \in 5..19 : exp.trials[k].arm["x0"] = 7500

\* C10: in GP+EI iteration i + 1 (i = 0..14, the loop variable) the model is
\* built, before the new trial is created, from the evaluation of exactly the
\* 5 + i trials created so far; the trial it then proposes is not among them.
C10_ModelRefittedOnAllTrials ==
    /\ pc = "gpei_gen" =>
         /\ NumTrials(exp) = 5 + i
         /\ DOMAIN gpei.data = 0..(5 + i - 1)
         /\ \A k \in DOMAIN gpei.data :
              gpei.data[k] = hartmann_evaluation_function(exp.trials[k].arm, None).value
    /\ (pc = "gpei_loop" /\ i > 0) =>
         /\ NumTrials(exp) = 5 + i
         /\ DOMAIN gpei.data = 0..(5 + i - 2)

C10_Witness ==
    /\ pc = "gpei_gen"
    /\ i = 14
    /\ DOMAIN gpei.data = 0..18
    /\ exp.trials[18].generator = "GPEI"

=============================================================================
